---- MODULE Spec2Model ----
(***************************************************************************)
(* Model of the trivia backend's request handlers                          *)
(* (backend/flaskr/__init__.py) over its relational store.                 *)
(*                                                                         *)
(* A text is a sequence of one-character strings, so that equality is the  *)
(* store's exact comparison and ILIKE is a case-insensitive substring      *)
(* search.  A JSON scalar is a record [tag, int, str].                     *)
(***************************************************************************)
EXTENDS Integers, Sequences, FiniteSets, TLC

VARIABLES
    questions,      \* the questions table, in the store's natural order
    categories,     \* the categories table
    nextId,         \* next value of the questions id sequence
    request,        \* the request being answered
    response,       \* the answer to it
    shown,          \* quiz client: ids it has been shown (previous_questions)
    game_category,  \* quiz client: the category_id it plays with
    pc,             \* concurrent server: position of each worker in its handler
    local           \* concurrent server: each worker's handler-local variables

vars == <<questions, categories, nextId, request, response, shown, game_category, pc, local>>

-----------------------------------------------------------------------------
(* Bounds of the model *)

MaxSeed == 12        \* the store starts with 0..MaxSeed seeded questions
MaxCreated == 1      \* the id sequence hands out at most MaxSeed + MaxCreated ids
MaxConcSeed == 1     \* the concurrent server starts with 0..MaxConcSeed questions
MaxConcCreated == 2  \* and hands out at most MaxConcSeed + MaxConcCreated ids

-----------------------------------------------------------------------------
(* Program constants *)

QUESTIONS_PER_PAGE == 10

-----------------------------------------------------------------------------
(* Generic helpers *)

Min(a, b) == IF a < b THEN a ELSE b

Max(a, b) == IF a > b THEN a ELSE b

Range(s) == {s[i] : i \in 1..Len(s)}

\* Python's s[start:stop] on a list, negative indices counted from the end.
PySlice(s, start, stop) ==
    LET n  == Len(s)
        lo == IF start < 0 THEN Max(start + n, 0) ELSE Min(start, n)
        hi == IF stop < 0 THEN Max(stop + n, 0) ELSE Min(stop, n)
    IN  IF lo < hi THEN SubSeq(s, lo + 1, hi) ELSE <<>>

\* JSON scalars
JInt(n) == [tag |-> "int", int |-> n, str |-> ""]

JStr(s) == [tag |-> "str", int |-> 0, str |-> s]

JNull == [tag |-> "null", int |-> 0, str |-> ""]

\* Python truthiness of a JSON scalar: None, 0 and "" are falsy.
Truthy(v) ==
    CASE v.tag = "int" -> v.int # 0
      [] v.tag = "str" -> v.str # ""
      [] OTHER -> FALSE

\* Case folding of ILIKE over the model's alphabet.
Lower(c) ==
    CASE c = "Q" -> "q"
      [] c = "N" -> "n"
      [] OTHER -> c

LowerText(t) == [i \in 1..Len(t) |-> Lower(t[i])]

Contains(t, term) ==
    \E i \in 0..(Len(t) - Len(term)) : SubSeq(t, i + 1, i + Len(term)) = term

\* Question.question.ilike('%term%')
ILike(t, term) == Contains(LowerText(t), LowerText(term))

-----------------------------------------------------------------------------
(* The store *)

Digit(d) == <<"0", "1", "2", "3", "4", "5", "6", "7", "8", "9">>[d + 1]

\* Text of the i-th seeded question: distinct for distinct i < 100.
SeedText(i) == <<"q", Digit((i \div 10) % 10), Digit(i % 10)>>

\* The categories table is seeded with two categories; category 3 is not one.
SeedCategories == << [id |-> 1, type |-> "Science"], [id |-> 2, type |-> "Art"] >>

SeedQuestion(i) ==
    [id |-> i, question |-> SeedText(i), answer |-> "seed",
     category |-> ((i + 1) % 2) + 1, difficulty |-> 1]

SeedQuestions(n) == [i \in 1..n |-> SeedQuestion(i)]

\* Question.format(): the externally exposed fields of a row.
FormatQuestion(q) ==
    [id |-> q.id, question |-> q.question, answer |-> q.answer,
     category |-> q.category, difficulty |-> q.difficulty]

\* Category.format()
FormatCategory(c) == [id |-> c.id, type |-> c.type]

FormatAll(sel) == [i \in 1..Len(sel) |-> FormatQuestion(sel[i])]

\* Question.query.all()
QueryAll(qs) == qs

\* Question.query.get(id): the row with that primary key, as a 0/1 sequence.
QueryGet(qs, id) == SelectSeq(qs, LAMBDA q : q.id = id)

\* Category.query.get(id)
CategoryGet(cats, id) == SelectSeq(cats, LAMBDA c : c.id = id)

\* Question.query.filter_by(category=c)
FilterByCategory(qs, c) == SelectSeq(qs, LAMBDA q : q.category = c)

\* Question.query.filter_by(question=text).all(): exact match on the text only.
FilterByQuestion(qs, text) == SelectSeq(qs, LAMBDA q : q.question = text)

\* Question.query.order_by(Question.id).filter(Question.question.ilike(...)).
\* The table is kept in id order, so order_by(id) keeps its order.
FilterByILike(qs, term) == SelectSeq(qs, LAMBDA q : ILike(q.question, term))

\* The difficulty column is an integer column: the store raises on other values.
InsertAccepts(row) == row.difficulty.tag = "int"

\* Question.insert(): add the row with the next id of the sequence and commit.
Insert(qs, id, row) ==
    Append(qs, [id |-> id, question |-> row.question, answer |-> row.answer,
                category |-> row.category, difficulty |-> row.difficulty.int])

\* Question.delete(): remove the row and commit.
Delete(qs, id) == SelectSeq(qs, LAMBDA q : q.id # id)

-----------------------------------------------------------------------------
(* Responses *)

NoCategory == [kind |-> "null", id |-> 0, type |-> ""]

CategoryName(t) == [kind |-> "str", id |-> 0, type |-> t]

CategoryDict(c) == [kind |-> "dict", id |-> c.id, type |-> c.type]

\* The envelope of every answer; fields a route does not send stay empty.
Envelope ==
    [status |-> 200, success |-> TRUE, questions |-> <<>>, count |-> 0,
     categories |-> <<>>, current_category |-> NoCategory, created |-> 0,
     question |-> <<>>, previous_questions |-> <<>>]

\* abort(code), through the registered error handlers.
Abort(code) == [Envelope EXCEPT !.status = code, !.success = FALSE]

-----------------------------------------------------------------------------
(* The handlers, as functions of the store and the request *)

\* `not selection` on a Query object: a Query defines no truth value of its
\* own, so it is truthy whatever rows it would return.
QueryFalsy(selection) == FALSE

\* GET /questions?page=N
get_questions(qs, cats, page) ==
    LET start     == (page - 1) * QUESTIONS_PER_PAGE
        end       == start + QUESTIONS_PER_PAGE
        selection == QueryAll(qs)
        qlist     == FormatAll(PySlice(selection, start, end))
        clist     == [i \in 1..Len(cats) |-> FormatCategory(cats[i])]
    IN  IF selection = <<>> THEN Abort(404)
        ELSE IF qlist = <<>> THEN Abort(404)
        ELSE [Envelope EXCEPT !.questions = qlist, !.count = Len(selection),
                              !.categories = clist]

\* GET /categories
get_categories(cats) ==
    LET clist == [i \in 1..Len(cats) |-> FormatCategory(cats[i])]
    IN  IF cats = <<>> THEN Abort(404)
        ELSE [Envelope EXCEPT !.count = Len(clist), !.categories = clist]

\* GET /categories/<category_id>/questions
get_question_by_category_id(qs, cats, category_id) ==
    LET category == CategoryGet(cats, category_id)
    IN  IF category = <<>> THEN Abort(500)    \* category.id on None raises
        ELSE LET selection == FilterByCategory(qs, category[1].id)
                 qlist     == FormatAll(selection)
             IN  IF QueryFalsy(selection) THEN Abort(404)
                 ELSE [Envelope EXCEPT !.count = Len(qlist), !.questions = qlist,
                           !.current_category = CategoryName(category[1].type)]

\* The status delete_question sends with its listing.
DeleteSuccessStatus == 200

\* A delete that answers not-found for the last question before removing it.
delete_question_KeepsLast(qs, id) ==
    LET question == QueryGet(qs, id)
    IN  IF question = <<>> \/ Len(qs) = 1
        THEN [questions |-> qs, response |-> Abort(404)]
        ELSE LET qlist == FormatAll(Delete(qs, id))
             IN  [questions |-> Delete(qs, id),
                  response  |-> [Envelope EXCEPT !.status = DeleteSuccessStatus,
                                    !.questions = qlist, !.count = Len(qlist)]]

\* DELETE /questions/<id>
delete_question(qs, id) ==
    LET question == QueryGet(qs, id)
    IN  IF question = <<>>
        THEN [questions |-> qs, response |-> Abort(404)]
        ELSE LET after     == Delete(qs, id)
                 selection == QueryAll(after)
                 qlist     == FormatAll(selection)
             IN  [questions |-> after,
                  response  |->
                     IF selection = <<>> THEN Abort(404)
                     ELSE IF qlist = <<>> THEN Abort(404)
                     ELSE [Envelope EXCEPT !.status = DeleteSuccessStatus,
                               !.questions = qlist, !.count = Len(qlist)]]

\* The four sub-fields the create branch reads (new_question[...]).
RequiredFields == {"question", "answer", "difficulty", "category"}

\* A conflict check that lets a single existing row through.
QuestionExists_MoreThanOne(existing_question) == Len(existing_question) > 1

\* `if existing_question:` on the list of rows with the requested text.
QuestionExists(existing_question) == existing_question # <<>>

\* A create answer whose count was taken before the insert.
CreatedResponse_StaleCount(selection, id) ==
    LET qlist == FormatAll(selection)
    IN  [Envelope EXCEPT !.status = 201, !.questions = qlist,
                         !.created = id, !.count = Len(qlist) - 1]

\* The body of the answer to a successful create.
CreatedResponse(selection, id) ==
    LET qlist == FormatAll(selection)
    IN  IF selection = <<>> THEN Abort(404)
        ELSE IF qlist = <<>> THEN Abort(404)
        ELSE [Envelope EXCEPT !.status = 201, !.questions = qlist,
                              !.created = id, !.count = Len(qlist)]

\* The answer of the category and the search branch.
ListResponse(selection) ==
    LET qlist == FormatAll(selection)
    IN  IF QueryFalsy(selection) THEN Abort(404)
        ELSE IF qlist = <<>> THEN Abort(404)
        ELSE [Envelope EXCEPT !.questions = qlist, !.count = Len(qlist)]

\* POST /questions
post_questions(qs, nid, body) ==
    LET category_query == body.category
        search_query   == body.search
        new_question   == body.question
        same(resp)     == [questions |-> qs, nextId |-> nid, response |-> resp]
    IN  IF Truthy(category_query)
        THEN same(ListResponse(FilterByCategory(qs, category_query.int)))
        ELSE IF search_query # <<>>
        THEN same(ListResponse(FilterByILike(qs, search_query)))
        ELSE IF new_question.keys # {}
        THEN IF ~(RequiredFields \subseteq new_question.keys)
             THEN same(Abort(422))
             ELSE IF QuestionExists(FilterByQuestion(qs, new_question.question))
             THEN same(Abort(409))
             ELSE IF ~InsertAccepts(new_question)
             THEN same(Abort(422))
             ELSE LET after == Insert(qs, nid, new_question)
                  IN  [questions |-> after, nextId |-> nid + 1,
                       response  |-> CreatedResponse(QueryAll(after), nid)]
        ELSE same(Abort(422))

\* A selection that ignores the requested category.
QuizSelection_AllRows(qs, category_id) == QueryAll(qs)

\* The rows the quiz draws from:
\* all questions for a falsy category_id or "0", else those of the category.
QuizSelection(qs, category_id) ==
    IF ~Truthy(category_id) \/ category_id = JStr("0")
    THEN QueryAll(qs)
    ELSE SelectSeq(qs, LAMBDA q : q.category = category_id.int)

\* The first five rows of the selection that were not shown before.
QuizCandidates(selection, previous_questions) ==
    SelectSeq(FormatAll(PySlice(selection, 0, 5)),
              LAMBDA q : q.id \notin Range(previous_questions))

\* POST /quizzes: the set of answers randint can produce.
get_quizzes(qs, cats, quiz) ==
    IF quiz.keys = {} THEN {Abort(422)}
    ELSE IF "category_id" \notin quiz.keys THEN {Abort(422)}
    ELSE LET category_id == quiz.category_id
             all         == ~Truthy(category_id) \/ category_id = JStr("0")
             found       == CategoryGet(cats, category_id.int)
         IN  IF ~all /\ found = <<>> THEN {Abort(500)}   \* None.format() raises
             ELSE IF "previous_questions" \notin quiz.keys THEN {Abort(500)}  \* KeyError
             ELSE LET category  == IF all THEN CategoryName("") ELSE CategoryDict(found[1])
                      selection == QuizSelection(qs, category_id)
                      cands     == QuizCandidates(selection, quiz.previous_questions)
                      answer(q) == [Envelope EXCEPT !.question = q,
                                       !.previous_questions = quiz.previous_questions,
                                       !.current_category = category]
                  IN  IF cands # <<>>
                      THEN {answer(<<cands[i]>>) : i \in 1..Len(cands)}
                      ELSE {answer(<<>>)}

-----------------------------------------------------------------------------
(* Requests *)

NoQuestion ==
    [keys |-> {}, question |-> <<>>, answer |-> "", difficulty |-> JNull, category |-> 0]

\* A JSON body of POST /questions; an absent key reads as None (JNull, <<>>, no keys).
NoBody == [category |-> JNull, search |-> <<>>, question |-> NoQuestion]

\* The 'quiz' object of POST /quizzes; no keys stands for {} and for no 'quiz' key.
NoQuiz == [keys |-> {}, category_id |-> JNull, previous_questions |-> <<>>]

Req(route) ==
    [route |-> route, page |-> 0, id |-> 0, body |-> NoBody, quiz |-> NoQuiz]

MaxId == MaxSeed + MaxCreated

Pages == {-1, 0, 1, 2, 3}

PathCategoryIds == {1, 2, 3}

DeleteIds == {1, 2, 99}

CreateTexts == {SeedText(1), <<"Q", "0", "1">>}

CreateQuestions ==
    [keys : {RequiredFields, RequiredFields \ {"answer"}}, question : CreateTexts,
     answer : {"new"}, difficulty : {JInt(2), JStr("hard")}, category : {3}]
    \cup [keys : {RequiredFields}, question : {SeedText(1)},
          answer : {"seed"}, difficulty : {JInt(1)}, category : {1}]

Bodies ==
    {NoBody}
    \cup {[NoBody EXCEPT !.question = q] : q \in CreateQuestions}
    \cup {[category |-> c, search |-> s, question |-> q] :
            c \in {JInt(1), JInt(3)}, s \in {<<>>, <<"q">>},
            q \in {NoQuestion,
                   [keys |-> RequiredFields, question |-> <<"n", "e", "w">>,
                    answer |-> "new", difficulty |-> JInt(2), category |-> 1]}}
    \cup {[NoBody EXCEPT !.search = s] : s \in {<<"q">>, <<"1", "0">>, <<"Z">>}}

QuizCategoryIds ==
    {JInt(0), JStr("0"), JNull, JStr(""), JInt(1), JInt(2), JInt(3)}

PrevLists == {<<>>, <<1, 2, 3, 4, 5>>, <<1, 3, 5, 7, 9>>}

Quizzes ==
    {NoQuiz}
    \cup {[NoQuiz EXCEPT !.keys = {"previous_questions"}, !.previous_questions = pl] :
            pl \in {<<>>}}
    \cup {[NoQuiz EXCEPT !.keys = {"category_id"}, !.category_id = c] :
            c \in QuizCategoryIds}
    \cup {[keys |-> {"category_id", "previous_questions"}, category_id |-> c,
           previous_questions |-> pl] : c \in QuizCategoryIds, pl \in PrevLists}

-----------------------------------------------------------------------------
(* The server answering one request at a time *)

Workers == {1, 2}

Idle == [w \in Workers |-> "idle"]

NoLocal ==
    [w \in Workers |-> [question |-> NoQuestion, id |-> 0, created |-> 0]]

Init ==
    /\ \E n \in 0..MaxSeed :
          /\ questions = SeedQuestions(n)
          /\ nextId = n + 1
    /\ categories = SeedCategories
    /\ request = Req("none")
    /\ response = Envelope
    /\ shown = <<>>
    /\ game_category = JNull
    /\ pc = Idle
    /\ local = NoLocal

GetQuestions ==
    \E p \in Pages :
        /\ request' = [Req("GET /questions") EXCEPT !.page = p]
        /\ response' = get_questions(questions, categories, p)
        /\ UNCHANGED <<questions, categories, nextId, shown, game_category, pc, local>>

GetCategories ==
    /\ request' = Req("GET /categories")
    /\ response' = get_categories(categories)
    /\ UNCHANGED <<questions, categories, nextId, shown, game_category, pc, local>>

GetQuestionByCategoryId ==
    \E c \in PathCategoryIds :
        /\ request' = [Req("GET /categories/id/questions") EXCEPT !.id = c]
        /\ response' = get_question_by_category_id(questions, categories, c)
        /\ UNCHANGED <<questions, categories, nextId, shown, game_category, pc, local>>

DeleteQuestion ==
    \E id \in DeleteIds :
        LET r == delete_question(questions, id)
        IN  /\ request' = [Req("DELETE /questions/id") EXCEPT !.id = id]
            /\ questions' = r.questions
            /\ response' = r.response
            /\ UNCHANGED <<categories, nextId, shown, game_category, pc, local>>

PostQuestions ==
    \E b \in Bodies :
        LET r == post_questions(questions, nextId, b)
        IN  /\ r.nextId <= MaxId + 1
            /\ request' = [Req("POST /questions") EXCEPT !.body = b]
            /\ questions' = r.questions
            /\ nextId' = r.nextId
            /\ response' = r.response
            /\ UNCHANGED <<categories, shown, game_category, pc, local>>

GetQuizzes ==
    \E q \in Quizzes :
        \E r \in get_quizzes(questions, categories, q) :
            /\ request' = [Req("POST /quizzes") EXCEPT !.quiz = q]
            /\ response' = r
            /\ UNCHANGED <<questions, categories, nextId, shown, game_category, pc, local>>

Next ==
    \/ GetQuestions
    \/ GetCategories
    \/ GetQuestionByCategoryId
    \/ DeleteQuestion
    \/ PostQuestions
    \/ GetQuizzes

Spec == Init /\ [][Next]_vars

-----------------------------------------------------------------------------
(* Properties of the server answering one request at a time *)

Ids(qs) == {qs[i].id : i \in 1..Len(qs)}

Texts(qs) == {qs[i].question : i \in 1..Len(qs)}

\* A body that reaches the create branch with all four fields.
IsCreate(req) ==
    /\ req.route = "POST /questions"
    /\ ~Truthy(req.body.category)
    /\ req.body.search = <<>>
    /\ RequiredFields \subseteq req.body.question.keys

\* C1: a create request whose question text equals the text of a stored
\* question answers 409, whatever its other fields are, and leaves the stored
\* questions unchanged.
C1_DuplicateTextConflicts ==
    [][ (IsCreate(request') /\ request'.body.question.question \in Texts(questions))
            => (response'.status = 409 /\ questions' = questions /\ nextId' = nextId)
      ]_vars

\* C1 witness: a create was answered 409 although its answer, difficulty and
\* category all differ from those of the stored question with the same text.
C1_Witness ==
    /\ IsCreate(request)
    /\ response.status = 409
    /\ \E i \in 1..Len(questions) :
          /\ questions[i].question = request.body.question.question
          /\ questions[i].answer # request.body.question.answer
          /\ JInt(questions[i].difficulty) # request.body.question.difficulty
          /\ questions[i].category # request.body.question.category

\* The effect the create claim describes: one new row holding the requested
\* values, its id reported as created, count one more than before.
CreatedEffect ==
    LET nq == request'.body.question
        n  == Len(questions)
    IN  /\ response'.status = 201
        /\ Len(questions') = n + 1
        /\ SubSeq(questions', 1, n) = questions
        /\ questions'[n + 1].question = nq.question
        /\ questions'[n + 1].answer = nq.answer
        /\ questions'[n + 1].category = nq.category
        /\ JInt(questions'[n + 1].difficulty) = nq.difficulty
        /\ questions'[n + 1].id \notin Ids(questions)
        /\ response'.created = questions'[n + 1].id
        /\ response'.count = n + 1
        /\ response'.questions = FormatAll(questions')

\* C3 as stated: every create request with all four fields and a text no
\* stored question has answers 201 and inserts exactly one question.
C3_FreshCreateAlwaysCreated ==
    [][ (IsCreate(request') /\ request'.body.question.question \notin Texts(questions))
            => CreatedEffect
      ]_vars

\* C3 amended: such a request answers 201, inserts exactly one question, reports
\* its id as created and the previous count plus one, and leaves the other
\* questions unchanged, when the store accepts the row (an integer difficulty);
\* when the store rejects the row it answers 422 and the store is unchanged.
C3_FreshCreate ==
    [][ (IsCreate(request') /\ request'.body.question.question \notin Texts(questions))
            => IF request'.body.question.difficulty.tag = "int"
               THEN CreatedEffect
               ELSE response'.status = 422 /\ questions' = questions
      ]_vars

\* C3 witness: a question was created on top of a non-empty store.
C3_Witness ==
    /\ IsCreate(request)
    /\ response.status = 201
    /\ Len(questions) > 1
    /\ questions[Len(questions)].id = response.created
    /\ response.count = Len(questions)

\* C4: deleting a stored id removes exactly that question, whatever is
\* answered (not-found when it was the only one); the id is in no listing
\* afterwards and the other questions are unchanged.  An id that is not stored
\* answers 404 and changes nothing.
C4_DeleteRemovesExactlyThat ==
    [][ request'.route = "DELETE /questions/id" =>
          IF request'.id \in Ids(questions)
          THEN /\ questions' = SelectSeq(questions, LAMBDA q : q.id # request'.id)
               /\ Len(questions') = Len(questions) - 1
               /\ request'.id \notin Ids(questions')
               /\ request'.id \notin Ids(response'.questions)
               /\ (Len(questions) = 1 => response'.status = 404)
               /\ (Len(questions) > 1 => response'.questions = FormatAll(questions'))
          ELSE response'.status = 404 /\ questions' = questions
      ]_vars

\* C4 witness: the only remaining question was deleted and the answer was 404.
C4_Witness ==
    /\ request.route = "DELETE /questions/id"
    /\ request.id = 1
    /\ nextId = 2
    /\ questions = <<>>
    /\ response.status = 404

\* C5: DELETE of a stored id answers 204.
C5_DeleteAnswers204 ==
    [][ (request'.route = "DELETE /questions/id" /\ request'.id \in Ids(questions))
            => response'.status = 204
      ]_vars

\* The positions of the collection inside the window of page p.
Window(qs, p) ==
    {i \in 0..(Len(qs) - 1) :
        (p - 1) * 10 <= i /\ i < (p - 1) * 10 + 10}

\* C6: GET /questions with any integer page p returns exactly the questions at
\* the positions of the window [(p-1)*10, (p-1)*10+10), in order, with the
\* total count; it answers 404 when no position falls in the window.
C6_PageIsWindow ==
    request.route = "GET /questions" =>
        LET w == Window(questions, request.page)
        IN  IF w = {}
            THEN response.status = 404
            ELSE /\ response.status = 200
                 /\ response.count = Len(questions)
                 /\ Len(response.questions) = Cardinality(w)
                 /\ \A k \in 1..Len(response.questions) :
                        response.questions[k]
                            = FormatQuestion(questions[(request.page - 1) * 10 + k])

\* The set a quiz request selects from: all questions when category_id is
\* falsy or "0", else the questions of the requested category.
SelectedSet(qs, category_id) ==
    IF ~Truthy(category_id) \/ category_id = JStr("0")
    THEN qs
    ELSE SelectSeq(qs, LAMBDA q : category_id.tag = "int" /\ q.category = category_id.int)

FirstFive(sel) == SubSeq(sel, 1, Min(5, Len(sel)))

WellFormedQuiz(req) ==
    /\ req.route = "POST /quizzes"
    /\ req.quiz.keys = {"category_id", "previous_questions"}

\* C7: for every well-formed POST /quizzes the returned question is null or a
\* question of the selected set whose id is not in previous_questions, and null
\* is returned with a success response exactly when each of the first five
\* questions of the selected set is in previous_questions (or the set is empty).
C7_QuizNeverRepeats ==
    WellFormedQuiz(request) =>
        LET sel  == SelectedSet(questions, request.quiz.category_id)
            prev == Range(request.quiz.previous_questions)
        IN  /\ response.question # <<>> =>
                  /\ response.question[1] \in Range(FormatAll(sel))
                  /\ response.question[1].id \notin prev
            /\ (response.success /\ response.question = <<>>)
                  <=> (\A q \in Range(FirstFive(sel)) : q.id \in prev)

C9_EmptyCategoryNotFound ==
    request.route = "GET /categories/id/questions" =>
        LET sel == SelectSeq(questions, LAMBDA q : q.category = request.id)
        IN  IF sel = <<>>
            THEN response.status = 404
            ELSE /\ response.status = 200
                 /\ response.questions = FormatAll(sel)
                 /\ response.count = Len(sel)
                 /\ \E i \in 1..Len(categories) :
                        /\ categories[i].id = request.id
                        /\ response.current_category = CategoryName(categories[i].type)

-----------------------------------------------------------------------------
(* A quiz game: one client playing POST /quizzes over an unchanging store *)

GameInit ==
    /\ \E n \in 0..MaxSeed :
          /\ questions = SeedQuestions(n)
          /\ nextId = n + 1
    /\ categories = SeedCategories
    /\ request = Req("none")
    /\ response = Envelope
    /\ shown = <<>>
    /\ game_category \in QuizCategoryIds
    /\ pc = Idle
    /\ local = NoLocal

\* The client posts the ids it was shown and appends the id it is answered.
PlayQuiz ==
    LET quiz == [keys |-> {"category_id", "previous_questions"},
                 category_id |-> game_category, previous_questions |-> shown]
    IN  \E r \in get_quizzes(questions, categories, quiz) :
            /\ request' = [Req("POST /quizzes") EXCEPT !.quiz = quiz]
            /\ response' = r
            /\ shown' = IF r.question # <<>>
                        THEN Append(shown, r.question[1].id)
                        ELSE shown
            /\ UNCHANGED <<questions, categories, nextId, game_category, pc, local>>

GameNext == PlayQuiz

GameSpec == GameInit /\ [][GameNext]_vars

\* C10: in a quiz game over an unchanging store the endpoint returns a
\* not-yet-shown question as long as the selected set still holds a question
\* that was not shown, and returns null only after every question of the
\* selected set has been shown.
C10_GameShowsEveryQuestion ==
    request.route = "POST /quizzes" =>
        LET sel  == SelectedSet(questions, request.quiz.category_id)
            prev == Range(request.quiz.previous_questions)
        IN  /\ (\E q \in Range(sel) : q.id \notin prev) =>
                  /\ response.question # <<>>
                  /\ response.question[1] \in Range(FormatAll(sel))
                  /\ response.question[1].id \notin prev
            /\ (response.success /\ response.question = <<>>) =>
                  \A q \in Range(sel) : q.id \in prev

-----------------------------------------------------------------------------
(* The server answering create and delete requests concurrently: each store *)
(* call of a handler is one step, and the steps of the workers interleave.  *)

ConcMaxId == MaxConcSeed + MaxConcCreated

ConcCreateQuestions ==
    [keys : {RequiredFields, RequiredFields \ {"answer"}}, question : CreateTexts,
     answer : {"new"}, difficulty : {JInt(2), JStr("hard")}, category : {3}]

ConcDeleteIds == {1, 2}

ConcInit ==
    /\ \E n \in 0..MaxConcSeed :
          /\ questions = SeedQuestions(n)
          /\ nextId = n + 1
    /\ categories = SeedCategories
    /\ request = Req("none")
    /\ response = Envelope
    /\ shown = <<>>
    /\ game_category = JNull
    /\ pc = Idle
    /\ local = NoLocal

\* The handler of worker w returns: its locals are gone.
Answer(w, resp) ==
    /\ response' = resp
    /\ pc' = [pc EXCEPT ![w] = "idle"]
    /\ local' = [local EXCEPT ![w] = NoLocal[w]]

\* post_questions up to the pre-insert lookup by text.
CreateLookup(w) ==
    /\ pc[w] = "idle"
    /\ \E new_question \in ConcCreateQuestions :
          IF ~(RequiredFields \subseteq new_question.keys)
          THEN Answer(w, Abort(422))
          ELSE IF QuestionExists(FilterByQuestion(questions, new_question.question))
          THEN Answer(w, Abort(409))
          ELSE /\ local' = [local EXCEPT ![w].question = new_question]
               /\ pc' = [pc EXCEPT ![w] = "insert"]
               /\ UNCHANGED response
    /\ UNCHANGED <<questions, categories, nextId, request, shown, game_category>>

\* question.insert()
CreateInsert(w) ==
    /\ pc[w] = "insert"
    /\ IF ~InsertAccepts(local[w].question)
       THEN /\ Answer(w, Abort(422))
            /\ UNCHANGED <<questions, nextId>>
       ELSE /\ nextId <= ConcMaxId
            /\ questions' = Insert(questions, nextId, local[w].question)
            /\ nextId' = nextId + 1
            /\ local' = [local EXCEPT ![w].created = nextId]
            /\ pc' = [pc EXCEPT ![w] = "refetch"]
            /\ UNCHANGED response
    /\ UNCHANGED <<categories, request, shown, game_category>>

\* Question.query.all() after the insert, and the answer.
CreateRefetch(w) ==
    /\ pc[w] = "refetch"
    /\ Answer(w, CreatedResponse(QueryAll(questions), local[w].created))
    /\ UNCHANGED <<questions, categories, nextId, request, shown, game_category>>

\* delete_question up to the lookup by id.
DeleteLookup(w) ==
    /\ pc[w] = "idle"
    /\ \E id \in ConcDeleteIds :
          IF QueryGet(questions, id) = <<>>
          THEN Answer(w, Abort(404))
          ELSE /\ local' = [local EXCEPT ![w].id = id]
               /\ pc' = [pc EXCEPT ![w] = "delete"]
               /\ UNCHANGED response
    /\ UNCHANGED <<questions, categories, nextId, request, shown, game_category>>

\* question.delete(); a row another worker already deleted is deleted again
\* without effect.
DeleteCommit(w) ==
    /\ pc[w] = "delete"
    /\ questions' = Delete(questions, local[w].id)
    /\ pc' = [pc EXCEPT ![w] = "relist"]
    /\ UNCHANGED <<categories, nextId, request, response, shown, game_category, local>>

\* Question.query.all() after the delete, and the answer.
DeleteRelist(w) ==
    /\ pc[w] = "relist"
    /\ Answer(w, IF QueryAll(questions) = <<>> THEN Abort(404)
                 ELSE [Envelope EXCEPT !.status = DeleteSuccessStatus,
                          !.questions = FormatAll(QueryAll(questions)),
                          !.count = Len(questions)])
    /\ UNCHANGED <<questions, categories, nextId, request, shown, game_category>>

ConcNext ==
    \E w \in Workers :
        \/ CreateLookup(w)
        \/ CreateInsert(w)
        \/ CreateRefetch(w)
        \/ DeleteLookup(w)
        \/ DeleteCommit(w)
        \/ DeleteRelist(w)

ConcSpec == ConcInit /\ [][ConcNext]_vars

\* C2: in every reachable state of the store no two Question records have
\* identical question text, also when create requests are served concurrently
\* and their lookup and insert steps interleave.
C2_UniqueQuestionText ==
    \A i, j \in 1..Len(questions) :
        questions[i].question = questions[j].question => i = j

====
